---------------------------- MODULE Spec2Model ----------------------------
(***************************************************************************)
(* A model of extract_pois.py: the category classifier, the dataset cache  *)
(* kept in a DuckDB file, and the extraction pipeline driven by main().    *)
(*                                                                         *)
(* Text is modelled as a sequence of one-character strings, so that        *)
(* Python's substring test (`x in category`) and str.lower() are computed  *)
(* character by character.  Coordinates are in hundredths of a degree,     *)
(* distances in metres, the radius in tenths of a kilometre.               *)
(***************************************************************************)
EXTENDS Integers, Sequences, FiniteSets, TLC

VARIABLES
  label,      \* classifier harness: the argument of categorize_place
  master,     \* classifier harness: its result, "unset" before the call
  pc,         \* position of main(): idle, parsed, valid, load, loaded, extracted, done, failed
  args,       \* the parsed command line of the current run
  dbExists,   \* the DuckDB cache file exists on disk
  dbTables,   \* the tables of the cache file: table name -> rows
  db0,        \* the cache as it was when the current run started
  log,        \* the I/O events of the current run, in order
  nearby,     \* the frame returned by extract_nearby_places in the current run
  outFile,    \* the output CSV on disk: NoFile, or its data rows
  exitCode,   \* the exit status of the current run, -1 while it runs
  summary,    \* the category counts printed in the current run
  prev,       \* what the previous run did (parameters, cache read, success)
  sortTies    \* how this build's unstable sort orders equal keys: a property of
              \* the installed numpy, the same in every run

vars == <<label, master, pc, args, dbExists, dbTables, db0, log, nearby, summary,
          outFile, exitCode, prev, sortTies>>

pipeVars == <<pc, args, dbExists, dbTables, db0, log, nearby, summary, outFile,
              exitCode, prev, sortTies>>

-----------------------------------------------------------------------------
(* Bounds of the model *)

\* the longest regional table / remote release, in rows
MaxPoints == 2
\* the number of fragments a classifier test label is built from
MaxParts == 2

-----------------------------------------------------------------------------
(* Text *)

\* a label that is present / the missing value (None, NaN)
Text(s) == [na |-> FALSE, s |-> s]
NA == [na |-> TRUE, s |-> <<>>]

\* pd.isna(category)
IsNa(category) == category.na

\* str.lower() on one character
LowerChar(c) ==
  CASE c = "A" -> "a" [] c = "B" -> "b" [] c = "C" -> "c" [] c = "D" -> "d"
    [] c = "E" -> "e" [] c = "F" -> "f" [] c = "G" -> "g" [] c = "H" -> "h"
    [] c = "I" -> "i" [] c = "J" -> "j" [] c = "K" -> "k" [] c = "L" -> "l"
    [] c = "M" -> "m" [] c = "N" -> "n" [] c = "O" -> "o" [] c = "P" -> "p"
    [] c = "Q" -> "q" [] c = "R" -> "r" [] c = "S" -> "s" [] c = "T" -> "t"
    [] c = "U" -> "u" [] c = "V" -> "v" [] c = "W" -> "w" [] c = "X" -> "x"
    [] c = "Y" -> "y" [] c = "Z" -> "z" [] OTHER -> c

\* category.lower()
Lower(s) == [i \in 1..Len(s) |-> LowerChar(s[i])]

\* Python's `x in s` on strings: x occurs in s as a contiguous substring
Contains(x, s) ==
  \E i \in 1..(Len(s) - Len(x) + 1) : SubSeq(s, i, i + Len(x) - 1) = x

\* any(x in category for x in keywords)
AnyIn(keywords, category) == \E x \in keywords : Contains(x, category)

-----------------------------------------------------------------------------
(* The keyword lists of categorize_place, one per rule *)

\* line 32: residential apartment housing home condominium holiday_rental
Kw_residential ==
  { <<"r","e","s","i","d","e","n","t","i","a","l">>,
    <<"a","p","a","r","t","m","e","n","t">>,
    <<"h","o","u","s","i","n","g">>,
    <<"h","o","m","e">>,
    <<"c","o","n","d","o","m","i","n","i","u","m">>,
    <<"h","o","l","i","d","a","y","_","r","e","n","t","a","l">> }

\* line 36: office business commercial company corporate professional_services real_estate
Kw_commercial ==
  { <<"o","f","f","i","c","e">>,
    <<"b","u","s","i","n","e","s","s">>,
    <<"c","o","m","m","e","r","c","i","a","l">>,
    <<"c","o","m","p","a","n","y">>,
    <<"c","o","r","p","o","r","a","t","e">>,
    <<"p","r","o","f","e","s","s","i","o","n","a","l","_","s","e","r","v","i","c","e","s">>,
    <<"r","e","a","l","_","e","s","t","a","t","e">> }

\* line 40: restaurant cafe coffee food dining bakery bar pub fast_food eatery pizza burger seafood indian chinese sushi steakhouse buffet diner bistro gastropub ice_cream dessert smoothie juice tea
Kw_restaurant ==
  { <<"r","e","s","t","a","u","r","a","n","t">>,
    <<"c","a","f","e">>,
    <<"c","o","f","f","e","e">>,
    <<"f","o","o","d">>,
    <<"d","i","n","i","n","g">>,
    <<"b","a","k","e","r","y">>,
    <<"b","a","r">>,
    <<"p","u","b">>,
    <<"f","a","s","t","_","f","o","o","d">>,
    <<"e","a","t","e","r","y">>,
    <<"p","i","z","z","a">>,
    <<"b","u","r","g","e","r">>,
    <<"s","e","a","f","o","o","d">>,
    <<"i","n","d","i","a","n">>,
    <<"c","h","i","n","e","s","e">>,
    <<"s","u","s","h","i">>,
    <<"s","t","e","a","k","h","o","u","s","e">>,
    <<"b","u","f","f","e","t">>,
    <<"d","i","n","e","r">>,
    <<"b","i","s","t","r","o">>,
    <<"g","a","s","t","r","o","p","u","b">>,
    <<"i","c","e","_","c","r","e","a","m">>,
    <<"d","e","s","s","e","r","t">>,
    <<"s","m","o","o","t","h","i","e">>,
    <<"j","u","i","c","e">>,
    <<"t","e","a">> }

\* line 44: shop store retail mall market boutique supermarket clothing jewelry furniture electronics mobile_phone cosmetic beauty_supplies shoe wholesale department_store convenience
Kw_retail ==
  { <<"s","h","o","p">>,
    <<"s","t","o","r","e">>,
    <<"r","e","t","a","i","l">>,
    <<"m","a","l","l">>,
    <<"m","a","r","k","e","t">>,
    <<"b","o","u","t","i","q","u","e">>,
    <<"s","u","p","e","r","m","a","r","k","e","t">>,
    <<"c","l","o","t","h","i","n","g">>,
    <<"j","e","w","e","l","r","y">>,
    <<"f","u","r","n","i","t","u","r","e">>,
    <<"e","l","e","c","t","r","o","n","i","c","s">>,
    <<"m","o","b","i","l","e","_","p","h","o","n","e">>,
    <<"c","o","s","m","e","t","i","c">>,
    <<"b","e","a","u","t","y","_","s","u","p","p","l","i","e","s">>,
    <<"s","h","o","e">>,
    <<"w","h","o","l","e","s","a","l","e">>,
    <<"d","e","p","a","r","t","m","e","n","t","_","s","t","o","r","e">>,
    <<"c","o","n","v","e","n","i","e","n","c","e">> }

\* line 48: hospital clinic medical pharmacy health doctor dentist dental surgeon diagnostic therapy wellness
Kw_healthcare ==
  { <<"h","o","s","p","i","t","a","l">>,
    <<"c","l","i","n","i","c">>,
    <<"m","e","d","i","c","a","l">>,
    <<"p","h","a","r","m","a","c","y">>,
    <<"h","e","a","l","t","h">>,
    <<"d","o","c","t","o","r">>,
    <<"d","e","n","t","i","s","t">>,
    <<"d","e","n","t","a","l">>,
    <<"s","u","r","g","e","o","n">>,
    <<"d","i","a","g","n","o","s","t","i","c">>,
    <<"t","h","e","r","a","p","y">>,
    <<"w","e","l","l","n","e","s","s">> }

\* line 52: school university college education library training preschool tutoring language_school
Kw_education ==
  { <<"s","c","h","o","o","l">>,
    <<"u","n","i","v","e","r","s","i","t","y">>,
    <<"c","o","l","l","e","g","e">>,
    <<"e","d","u","c","a","t","i","o","n">>,
    <<"l","i","b","r","a","r","y">>,
    <<"t","r","a","i","n","i","n","g">>,
    <<"p","r","e","s","c","h","o","o","l">>,
    <<"t","u","t","o","r","i","n","g">>,
    <<"l","a","n","g","u","a","g","e","_","s","c","h","o","o","l">> }

\* line 56: entertainment cinema theater museum park recreation sport gym beach amusement club dance yoga fitness pool arcade
Kw_entertainment ==
  { <<"e","n","t","e","r","t","a","i","n","m","e","n","t">>,
    <<"c","i","n","e","m","a">>,
    <<"t","h","e","a","t","e","r">>,
    <<"m","u","s","e","u","m">>,
    <<"p","a","r","k">>,
    <<"r","e","c","r","e","a","t","i","o","n">>,
    <<"s","p","o","r","t">>,
    <<"g","y","m">>,
    <<"b","e","a","c","h">>,
    <<"a","m","u","s","e","m","e","n","t">>,
    <<"c","l","u","b">>,
    <<"d","a","n","c","e">>,
    <<"y","o","g","a">>,
    <<"f","i","t","n","e","s","s">>,
    <<"p","o","o","l">>,
    <<"a","r","c","a","d","e">> }

\* line 60: hotel accommodation lodge hostel motel resort guest_house bed_and_breakfast
Kw_hotel ==
  { <<"h","o","t","e","l">>,
    <<"a","c","c","o","m","m","o","d","a","t","i","o","n">>,
    <<"l","o","d","g","e">>,
    <<"h","o","s","t","e","l">>,
    <<"m","o","t","e","l">>,
    <<"r","e","s","o","r","t">>,
    <<"g","u","e","s","t","_","h","o","u","s","e">>,
    <<"b","e","d","_","a","n","d","_","b","r","e","a","k","f","a","s","t">> }

\* line 64: transport station airport parking fuel gas_station car_rental automotive car_dealer bus metro taxi
Kw_transportation ==
  { <<"t","r","a","n","s","p","o","r","t">>,
    <<"s","t","a","t","i","o","n">>,
    <<"a","i","r","p","o","r","t">>,
    <<"p","a","r","k","i","n","g">>,
    <<"f","u","e","l">>,
    <<"g","a","s","_","s","t","a","t","i","o","n">>,
    <<"c","a","r","_","r","e","n","t","a","l">>,
    <<"a","u","t","o","m","o","t","i","v","e">>,
    <<"c","a","r","_","d","e","a","l","e","r">>,
    <<"b","u","s">>,
    <<"m","e","t","r","o">>,
    <<"t","a","x","i">> }

\* line 68: mosque church temple religious worship cathedral
Kw_religious ==
  { <<"m","o","s","q","u","e">>,
    <<"c","h","u","r","c","h">>,
    <<"t","e","m","p","l","e">>,
    <<"r","e","l","i","g","i","o","u","s">>,
    <<"w","o","r","s","h","i","p">>,
    <<"c","a","t","h","e","d","r","a","l">> }

\* line 72: salon spa beauty barber massage nail hair cosmetic
Kw_beauty_personal_care ==
  { <<"s","a","l","o","n">>,
    <<"s","p","a">>,
    <<"b","e","a","u","t","y">>,
    <<"b","a","r","b","e","r">>,
    <<"m","a","s","s","a","g","e">>,
    <<"n","a","i","l">>,
    <<"h","a","i","r">>,
    <<"c","o","s","m","e","t","i","c">> }

\* line 76: service agency travel tour event marketing advertising cleaning printing lawyer financial insurance banking
Kw_services ==
  { <<"s","e","r","v","i","c","e">>,
    <<"a","g","e","n","c","y">>,
    <<"t","r","a","v","e","l">>,
    <<"t","o","u","r">>,
    <<"e","v","e","n","t">>,
    <<"m","a","r","k","e","t","i","n","g">>,
    <<"a","d","v","e","r","t","i","s","i","n","g">>,
    <<"c","l","e","a","n","i","n","g">>,
    <<"p","r","i","n","t","i","n","g">>,
    <<"l","a","w","y","e","r">>,
    <<"f","i","n","a","n","c","i","a","l">>,
    <<"i","n","s","u","r","a","n","c","e">>,
    <<"b","a","n","k","i","n","g">> }

\* line 80: landmark monument historical tourism attraction
Kw_landmark ==
  { <<"l","a","n","d","m","a","r","k">>,
    <<"m","o","n","u","m","e","n","t">>,
    <<"h","i","s","t","o","r","i","c","a","l">>,
    <<"t","o","u","r","i","s","m">>,
    <<"a","t","t","r","a","c","t","i","o","n">> }
-----------------------------------------------------------------------------
(* categorize_place *)

\* the if / elif chain over the lower-cased label, swapped: retail is tested
\* before restaurant
categorize_retail_first(category) ==
  IF IsNa(category) THEN "other"
  ELSE LET c == Lower(category.s) IN
    IF AnyIn(Kw_residential, c) THEN "residential"
    ELSE IF AnyIn(Kw_commercial, c) THEN "commercial"
    ELSE IF AnyIn(Kw_retail, c) THEN "retail"
    ELSE IF AnyIn(Kw_restaurant, c) THEN "restaurant"
    ELSE IF AnyIn(Kw_healthcare, c) THEN "healthcare"
    ELSE IF AnyIn(Kw_education, c) THEN "education"
    ELSE IF AnyIn(Kw_entertainment, c) THEN "entertainment"
    ELSE IF AnyIn(Kw_hotel, c) THEN "hotel"
    ELSE IF AnyIn(Kw_transportation, c) THEN "transportation"
    ELSE IF AnyIn(Kw_religious, c) THEN "religious"
    ELSE IF AnyIn(Kw_beauty_personal_care, c) THEN "beauty_personal_care"
    ELSE IF AnyIn(Kw_services, c) THEN "services"
    ELSE IF AnyIn(Kw_landmark, c) THEN "landmark"
    ELSE "other"

categorize_place(category) ==
  IF IsNa(category) THEN "other"
  ELSE LET c == Lower(category.s) IN
    IF AnyIn(Kw_residential, c) THEN "residential"
    ELSE IF AnyIn(Kw_commercial, c) THEN "commercial"
    ELSE IF AnyIn(Kw_restaurant, c) THEN "restaurant"
    ELSE IF AnyIn(Kw_retail, c) THEN "retail"
    ELSE IF AnyIn(Kw_healthcare, c) THEN "healthcare"
    ELSE IF AnyIn(Kw_education, c) THEN "education"
    ELSE IF AnyIn(Kw_entertainment, c) THEN "entertainment"
    ELSE IF AnyIn(Kw_hotel, c) THEN "hotel"
    ELSE IF AnyIn(Kw_transportation, c) THEN "transportation"
    ELSE IF AnyIn(Kw_religious, c) THEN "religious"
    ELSE IF AnyIn(Kw_beauty_personal_care, c) THEN "beauty_personal_care"
    ELSE IF AnyIn(Kw_services, c) THEN "services"
    ELSE IF AnyIn(Kw_landmark, c) THEN "landmark"
    ELSE "other"

-----------------------------------------------------------------------------
(* The remote release and the cached regional table *)

\* the table load_overture_data creates and extract_nearby_places reads
DubaiPlaces == <<"d","u","b","a","i","_","p","l","a","c","e","s">>

\* another table a cache file may hold: an older copy of the region
DubaiPlacesOld ==
  <<"d","u","b","a","i","_","p","l","a","c","e","s","_","o","l","d">>

\* str(t) of a row of SHOW TABLES, a 1-tuple: ('name',)
StrOfRow(name) == <<"(", "'">> \o name \o <<"'", ",", ")">>

\* one record of the remote release, as the SELECT list shapes it; the
\* geometry is a point and its bounding box is that point
Place(id, name, category, lat, lon) ==
  [ id                   |-> id,
    primary_name         |-> name,
    primary_category     |-> category,
    alternate_categories |-> <<>>,
    geometry             |-> [x |-> lon, y |-> lat],
    bbox                 |-> [xmin |-> lon, xmax |-> lon, ymin |-> lat, ymax |-> lat] ]

\* the places a release may contain: two sharing one position 0.10 degrees
\* north of (25.17, 55.26), one 0.19 degrees east of it, and one outside the
\* region
KnownPlaces ==
  { Place("b", "Bean Corner", Text(<<"C","a","f","e","_","S","h","o","p">>), 2527, 5526),
    Place("c", "Upstairs", NA, 2527, 5526),
    Place("d", "Depot",
          Text(<<"u","n","k","n","o","w","n","_","w","e","i","r","d","_","l","a","b","e","l">>),
          2517, 5545),
    Place("e", "Corniche Clinic", Text(<<"h","o","s","p","i","t","a","l">>), 2445, 5437) }

\* the WHERE clause of the CREATE TABLE query
InBBox(p) ==
  /\ p.bbox.xmin >= 5490
  /\ p.bbox.xmax <= 5560
  /\ p.bbox.ymin >= 2470
  /\ p.bbox.ymax <= 2540

\* the rows CREATE OR REPLACE TABLE dubai_places AS SELECT ... keeps
RegionOf(release) == SelectSeq(release, InBBox)

Distinct(s) == \A i, j \in 1..Len(s) : i # j => s[i].id # s[j].id

\* the releases a fetch may read: up to MaxPoints records, at least one of
\* them in the region (every Overture release has places in the Dubai
\* bounding box; a regional table without rows is not part of the model)
Releases ==
  { s \in UNION { [1..n -> KnownPlaces] : n \in 1..MaxPoints } :
      Distinct(s) /\ RegionOf(s) # <<>> }

\* the regional tables a populated cache may hold
RegionTables == { RegionOf(s) : s \in Releases }

NoTables == [n \in {} |-> <<>>]

\* the content of the older copy, where a file has one
OldCopy == << Place("d", "Depot", NA, 2517, 5545) >>

\* the cache files an installation may start with: none, or a file holding
\* any of the two tables
CacheFiles ==
  { [exists |-> FALSE, tables |-> NoTables] } \cup
  { [exists |-> TRUE,
     tables |-> [n \in names |-> IF n = DubaiPlaces THEN t ELSE OldCopy]] :
      names \in SUBSET {DubaiPlaces, DubaiPlacesOld}, t \in RegionTables }

\* the cache is READY: the regional table is materialised
Ready(tables) == DubaiPlaces \in DOMAIN tables

\* line 101: has_data = any('dubai_places' in str(t) for t in tables)
HasData(tables) ==
  \E t \in DOMAIN tables : Contains(DubaiPlaces, StrOfRow(t))

\* the force_reload argument of the call at line 167: not passed, so the
\* default of the signature
force_reload_always == TRUE

force_reload == FALSE

\* line 103: the cached path is taken
CachedPath(tables) == HasData(tables) /\ ~force_reload

\* a failing CREATE OR REPLACE TABLE ... AS SELECT commits rows read so far
CommitPartial(tables) ==
  [n \in DOMAIN tables \cup {DubaiPlaces} |-> IF n = DubaiPlaces THEN <<>> ELSE tables[n]]

\* the tables of the file after the statement at line 139 raised: DuckDB runs
\* the statement in one transaction, so nothing of it is kept
AfterFailedFetch(tables) == tables

\* the tables of the file after the statement at line 139 succeeded
AfterFetch(tables, release) ==
  [n \in DOMAIN tables \cup {DubaiPlaces} |->
     IF n = DubaiPlaces THEN RegionOf(release) ELSE tables[n]]

-----------------------------------------------------------------------------
(* Distances *)

RECURSIVE SqrtBetween(_, _, _)
SqrtBetween(n, lo, hi) ==
  IF lo = hi THEN lo
  ELSE LET mid == (lo + hi + 1) \div 2
       IN IF mid * mid <= n THEN SqrtBetween(n, mid, hi)
          ELSE SqrtBetween(n, lo, mid - 1)

\* the integer square root
ISqrt(n) == SqrtBetween(n, 0, 46340)

Abs(x) == IF x < 0 THEN -x ELSE x

\* geodesic((point_lat, point_lon), (target_lat, target_lon)).meters near
\* 25 N: one hundredth of a degree is 1110 m along a meridian and 1010 m
\* along the parallel; computed to 10 m
haversine_distance(geom, target_lat, target_lon) ==
  10 * ISqrt((111 * Abs(geom.y - target_lat)) * (111 * Abs(geom.y - target_lat))
             + (101 * Abs(geom.x - target_lon)) * (101 * Abs(geom.x - target_lon)))

\* the distance of the two points in EPSG:3857 near 25 N: one hundredth of a
\* degree is 1230 m north and 1110 m east on the Mercator plane
euclidean_distance(geom, target_lat, target_lon) ==
  10 * ISqrt((123 * Abs(geom.y - target_lat)) * (123 * Abs(geom.y - target_lat))
             + (111 * Abs(geom.x - target_lon)) * (111 * Abs(geom.x - target_lon)))

\* (metres / 1000).round(2), in hundredths of a kilometre, ties to even
RoundKm2(m) ==
  LET q == m \div 10
      r == m % 10
  IN IF r > 5 \/ (r = 5 /\ q % 2 = 1) THEN q + 1 ELSE q

-----------------------------------------------------------------------------
(* extract_nearby_places *)

\* lines 183-190: a row of the table with both distances to the target
WithDistances(row, lat, lon) ==
  [ id                   |-> row.id,
    primary_name         |-> row.primary_name,
    primary_category     |-> row.primary_category,
    alternate_categories |-> row.alternate_categories,
    geometry             |-> row.geometry,
    euclidean_m          |-> euclidean_distance(row.geometry, lat, lon),
    haversine_m          |-> haversine_distance(row.geometry, lat, lon) ]

\* the mask with the projected distance in place of the geodesic one
WithinEuclidean(row, radius_km) == row.euclidean_m <= radius_km * 100

\* line 192: the mask gdf['haversine_m'] <= radius_km * 1000 (the radius is
\* in tenths of a kilometre here)
WithinRadius(row, radius_km) == row.haversine_m <= radius_km * 100

\* the frame left as it was filtered
NotSorted(rows, ties) == rows

\* a sort that keeps one row of every group of equal keys
SortDroppingTies(rows, ties) ==
  LET n == Len(rows)
      first == { i \in 1..n : \A j \in 1..(i - 1) : rows[j].haversine_m # rows[i].haversine_m }
      Rank(i) == Cardinality({ j \in first : rows[j].haversine_m < rows[i].haversine_m }) + 1
  IN [k \in 1..Cardinality(first) |-> rows[CHOOSE i \in first : Rank(i) = k]]

\* line 195: nearby.sort_values('haversine_m'), pandas' default kind
\* 'quicksort', which is not stable: rows of equal key come out in the order
\* the build's sort leaves them in, here the table's order or its reverse
SortValues(rows, ties) ==
  LET n == Len(rows)
      Prec(i, j) ==
        \/ rows[i].haversine_m < rows[j].haversine_m
        \/ /\ rows[i].haversine_m = rows[j].haversine_m
           /\ IF ties = "kept" THEN i < j ELSE i > j
      Rank(i) == Cardinality({ j \in 1..n : Prec(j, i) }) + 1
  IN [k \in 1..n |-> rows[CHOOSE i \in 1..n : Rank(i) = k]]

\* lines 193-194 and 198-201: the derived columns of a retained row
Annotated(row) ==
  [ id                   |-> row.id,
    primary_name         |-> row.primary_name,
    primary_category     |-> row.primary_category,
    alternate_categories |-> row.alternate_categories,
    geometry             |-> row.geometry,
    euclidean_m          |-> row.euclidean_m,
    haversine_m          |-> row.haversine_m,
    euclidean_km         |-> RoundKm2(row.euclidean_m),
    haversine_km         |-> RoundKm2(row.haversine_m),
    master_category      |-> categorize_place(row.primary_category),
    lat                  |-> row.geometry.y,
    lon                  |-> row.geometry.x ]

\* lines 171-207: the frame extract_nearby_places returns for a table
NearbyOf(table, lat, lon, radius_km, ties) ==
  LET gdf      == [i \in 1..Len(table) |-> WithDistances(table[i], lat, lon)]
      filtered == SelectSeq(gdf, LAMBDA r : WithinRadius(r, radius_km))
      sorted   == SortValues(filtered, ties)
  IN [i \in 1..Len(sorted) |-> Annotated(sorted[i])]

\* line 205: nearby['master_category'].value_counts()
ValueCounts(frame) ==
  LET cats == { frame[i].master_category : i \in 1..Len(frame) }
  IN [c \in cats |-> Cardinality({ i \in 1..Len(frame) : frame[i].master_category = c })]

\* the frame raises as well when it has no row
RaisesOnEmpty(tables, a, ties) ==
  \/ ~Ready(tables)
  \/ NearbyOf(tables[DubaiPlaces], a.latitude, a.longitude, a.radius, ties) = <<>>

\* lines 171-207 raise: SELECT * FROM dubai_places finds no such table
ExtractRaises(tables, a, ties) == ~Ready(tables)

\* lines 265-280: the row of the CSV for a row of the frame
CsvRow(r) ==
  [ id                   |-> r.id,
    primary_name         |-> r.primary_name,
    primary_category     |-> r.primary_category,
    master_category      |-> r.master_category,
    lat                  |-> r.lat,
    lon                  |-> r.lon,
    haversine_km         |-> r.haversine_km,
    haversine_m          |-> r.haversine_m,
    euclidean_km         |-> r.euclidean_km,
    euclidean_m          |-> r.euclidean_m,
    alternate_categories |-> r.alternate_categories ]

ToCsv(frame) == [i \in 1..Len(frame) |-> CsvRow(frame[i])]

-----------------------------------------------------------------------------
(* main *)

\* the command lines of the model: the target (25.17, 55.26) with radius 20
\* and 11.1 km, a target 40 km from every known place, and one command line
\* for each failing check; each with and without --reload
CommandLines ==
  { [latitude |-> c[1], longitude |-> c[2], radius |-> c[3], reload |-> r] :
      c \in { <<2517, 5526, 200>>, <<2517, 5526, 111>>, <<2480, 5500, 111>>,
              <<9500, 5526, 200>>, <<2517, 18100, 200>>, <<2517, 5526, 0>> },
      r \in BOOLEAN }

\* line 9: the command line of the docstring, which args holds before the
\* first run
ExampleArgs == [latitude |-> 2517, longitude |-> 5526, radius |-> 200, reload |-> FALSE]

\* the checks without the one on the radius
ValidWithoutRadius(a) ==
  /\ -9000 <= a.latitude /\ a.latitude <= 9000
  /\ -18000 <= a.longitude /\ a.longitude <= 18000

\* lines 238-248: none of the three checks exits
ValidArgs(a) ==
  /\ -9000 <= a.latitude /\ a.latitude <= 9000
  /\ -18000 <= a.longitude /\ a.longitude <= 18000
  /\ ~(a.radius <= 0)

NoPrev == [kind |-> "none", latitude |-> 0, longitude |-> 0, radius |-> 0]

\* what a finished run leaves for the comparison with the next one
Outcome ==
  IF pc = "done" /\ ~args.reload /\ Ready(db0.tables)
    THEN [kind |-> "cached", latitude |-> args.latitude,
          longitude |-> args.longitude, radius |-> args.radius]
  ELSE IF pc = "failed" /\ log # <<>> /\ log[Len(log)] = "fetch"
    THEN [kind |-> "fetch_failed", latitude |-> 0, longitude |-> 0, radius |-> 0]
  ELSE [kind |-> "other", latitude |-> 0, longitude |-> 0, radius |-> 0]

Init ==
  /\ label = NA
  /\ master = "unset"
  /\ pc = "idle"
  /\ args = ExampleArgs
  /\ \E f \in CacheFiles : /\ dbExists = f.exists
                           /\ dbTables = f.tables
                           /\ db0 = f
  /\ log = <<>>
  /\ nearby = <<>>
  /\ summary = ValueCounts(<<>>)
  /\ outFile = [exists |-> FALSE, rows |-> <<>>]
  /\ exitCode = -1
  /\ prev = NoPrev
  /\ sortTies \in {"kept", "reversed"}

\* line 236: a run starts, the command line is parsed
Start(a) ==
  /\ pc \in {"idle", "done", "failed"}
  /\ pc' = "parsed"
  /\ args' = a
  /\ db0' = [exists |-> dbExists, tables |-> dbTables]
  /\ log' = <<>>
  /\ nearby' = <<>>
  /\ summary' = ValueCounts(<<>>)
  /\ exitCode' = -1
  /\ prev' = IF pc = "idle" THEN NoPrev ELSE Outcome
  /\ UNCHANGED <<label, master, dbExists, dbTables, outFile, sortTies>>

\* lines 238-248: the three range checks
Validate ==
  /\ pc = "parsed"
  /\ IF ValidArgs(args)
       THEN pc' = "valid" /\ UNCHANGED exitCode
       ELSE pc' = "failed" /\ exitCode' = 1
  /\ UNCHANGED <<label, master, args, dbExists, dbTables, db0, log, nearby,
                 summary, outFile, prev, sortTies>>

\* lines 250-254: --reload removes the cache file
Reload ==
  /\ pc = "valid"
  /\ pc' = "load"
  /\ IF args.reload /\ dbExists
       THEN /\ dbExists' = FALSE
            /\ dbTables' = NoTables
            /\ log' = Append(log, "unlink")
       ELSE UNCHANGED <<dbExists, dbTables, log>>
  /\ UNCHANGED <<label, master, args, db0, nearby, summary, outFile, exitCode,
                 prev, sortTies>>

\* lines 97-105: load_overture_data returns the connection to the cached table
LoadCached ==
  /\ pc = "load"
  /\ CachedPath(dbTables)
  /\ pc' = "loaded"
  /\ dbExists' = TRUE
  /\ log' = Append(log, "connect")
  /\ UNCHANGED <<label, master, args, dbTables, db0, nearby, summary, outFile,
                 exitCode, prev, sortTies>>

\* lines 97-144: load_overture_data downloads a release and creates the table
FetchOk(release) ==
  /\ pc = "load"
  /\ ~CachedPath(dbTables)
  /\ pc' = "loaded"
  /\ dbExists' = TRUE
  /\ dbTables' = AfterFetch(dbTables, release)
  /\ log' = log \o <<"connect", "fetch", "create_table">>
  /\ UNCHANGED <<label, master, args, db0, nearby, summary, outFile, exitCode,
                 prev, sortTies>>

\* lines 110-139 raise (network, remote source): main's except clause exits
FetchFail ==
  /\ pc = "load"
  /\ ~CachedPath(dbTables)
  /\ pc' = "failed"
  /\ exitCode' = 1
  /\ dbExists' = TRUE
  /\ dbTables' = AfterFailedFetch(dbTables)
  /\ log' = log \o <<"connect", "fetch">>
  /\ UNCHANGED <<label, master, args, db0, nearby, summary, outFile, prev,
                 sortTies>>

\* lines 171-207: the table is read, filtered, sorted and classified
Extract ==
  /\ pc = "loaded"
  /\ log' = Append(log, "select")
  /\ IF ExtractRaises(dbTables, args, sortTies)
       THEN /\ pc' = "failed"
            /\ exitCode' = 1
            /\ UNCHANGED <<nearby, summary>>
       ELSE /\ pc' = "extracted"
            /\ nearby' = NearbyOf(dbTables[DubaiPlaces], args.latitude,
                                  args.longitude, args.radius, sortTies)
            /\ summary' = ValueCounts(nearby')
            /\ UNCHANGED exitCode
  /\ UNCHANGED <<label, master, args, dbExists, dbTables, db0, outFile, prev,
                 sortTies>>

\* lines 265-284: the frame is written to the output file
Write ==
  /\ pc = "extracted"
  /\ pc' = "done"
  /\ exitCode' = 0
  /\ outFile' = [exists |-> TRUE, rows |-> ToCsv(nearby)]
  /\ log' = Append(log, "to_csv")
  /\ UNCHANGED <<label, master, args, dbExists, dbTables, db0, nearby, summary,
                 prev, sortTies>>

Next ==
  \/ \E a \in CommandLines : Start(a)
  \/ Validate
  \/ Reload
  \/ LoadCached
  \/ \E release \in Releases : FetchOk(release)
  \/ FetchFail
  \/ Extract
  \/ Write

Spec == Init /\ [][Next]_vars

-----------------------------------------------------------------------------
(* The classifier on its own *)

\* the pieces test labels are made of
Fragments ==
  { <<"C","a","f","e">>, <<"s","h","o","p">>, <<"b","a","r">>, <<"b","e","r">>,
    <<"p","a","r","k">>, <<"i","n","g">>, <<"t","o","u","r">>, <<"i","s","m">>,
    <<"_">>, <<"w","e","i","r","d">>, <<"H","O","S","P","I","T","A","L">>,
    <<"s","p","a">>,
    <<"f","a","s","t","_","f","o","o","d","_","r","e","s","t","a","u","r","a","n","t">>,
    <<"u","n","k","n","o","w","n","_","w","e","i","r","d","_","l","a","b","e","l">> }

RECURSIVE LabelsOf(_)
LabelsOf(n) ==
  IF n = 0 THEN { <<>> }
  ELSE LET shorter == LabelsOf(n - 1)
       IN shorter \cup { f \o l : f \in Fragments, l \in shorter }

\* the labels classified: missing, empty, and up to MaxParts fragments
Labels == {NA} \cup { Text(s) : s \in LabelsOf(MaxParts) }

InitCat ==
  /\ label \in Labels
  /\ master = "unset"
  /\ pc = "idle"
  /\ args = ExampleArgs
  /\ dbExists = FALSE
  /\ dbTables = NoTables
  /\ db0 = [exists |-> FALSE, tables |-> NoTables]
  /\ log = <<>>
  /\ nearby = <<>>
  /\ summary = ValueCounts(<<>>)
  /\ outFile = [exists |-> FALSE, rows |-> <<>>]
  /\ exitCode = -1
  /\ prev = NoPrev
  /\ sortTies = "kept"

\* line 198: categorize_place is applied to a label
Classify ==
  /\ master = "unset"
  /\ master' = categorize_place(label)
  /\ UNCHANGED <<label, pipeVars>>

NextCat == Classify

SpecCat == InitCat /\ [][NextCat]_vars

-----------------------------------------------------------------------------
(* Properties *)

Range(s) == { s[i] : i \in 1..Len(s) }

Last(s) == s[Len(s)]

\* the run has a frame: extract_nearby_places returned
HasFrame == pc \in {"extracted", "done"}

\* the regional table the current run read
TableRead == dbTables[DubaiPlaces]

\* the geodesic distance of a table row to the target of the current run
DistanceOf(p) == haversine_distance(p.geometry, args.latitude, args.longitude)

\* the rows of the table read that lie within the radius of the current run
InRadius == { p \in Range(TableRead) : DistanceOf(p) <= args.radius * 100 }

\* the position of a place in the table read
PosInTable(id) == CHOOSE i \in 1..Len(TableRead) : TableRead[i].id = id

\* C1: the rows returned are exactly the table rows whose geodesic distance
\* to the target is at most radiusKm * 1000 m, each once and with that
\* distance; the projected distance plays no part
ExactRadiusFilter ==
  HasFrame =>
    /\ { r.id : r \in Range(nearby) } = { p.id : p \in InRadius }
    /\ Len(nearby) = Cardinality(InRadius)
    /\ \A r \in Range(nearby) : r.haversine_m = DistanceOf(TableRead[PosInTable(r.id)])
    /\ pc = "done" => { r.id : r \in Range(outFile.rows) } = { p.id : p \in InRadius }

\* C1 witness: a finished run kept a row whose projected distance exceeds the
\* radius and dropped another row of the table
KeptByGeodesicOnly ==
  /\ pc = "done"
  /\ \E r \in Range(nearby) : r.euclidean_m > args.radius * 100
  /\ Len(nearby) < Len(TableRead)

NonDecreasing(rows) ==
  \A i \in 1..(Len(rows) - 1) : rows[i].haversine_m <= rows[i + 1].haversine_m

\* C2: the returned rows, and the rows written to the output file, are in
\* non-decreasing order of haversine_m
SortedByHaversine ==
  /\ HasFrame => NonDecreasing(nearby)
  /\ pc = "done" => NonDecreasing(outFile.rows)

\* C2 witness: a finished run wrote two rows of different distance, the
\* nearer one second in the table
SortReordered ==
  /\ pc = "done"
  /\ Len(outFile.rows) >= 2
  /\ outFile.rows[1].haversine_m < outFile.rows[2].haversine_m
  /\ PosInTable(outFile.rows[1].id) > PosInTable(outFile.rows[2].id)

\* the rules in their fixed order
RuleOrder ==
  << "residential", "commercial", "restaurant", "retail", "healthcare",
     "education", "entertainment", "hotel", "transportation", "religious",
     "beauty_personal_care", "services", "landmark" >>

KeywordsOf(c) ==
  CASE c = "residential" -> Kw_residential
    [] c = "commercial" -> Kw_commercial
    [] c = "restaurant" -> Kw_restaurant
    [] c = "retail" -> Kw_retail
    [] c = "healthcare" -> Kw_healthcare
    [] c = "education" -> Kw_education
    [] c = "entertainment" -> Kw_entertainment
    [] c = "hotel" -> Kw_hotel
    [] c = "transportation" -> Kw_transportation
    [] c = "religious" -> Kw_religious
    [] c = "beauty_personal_care" -> Kw_beauty_personal_care
    [] c = "services" -> Kw_services
    [] c = "landmark" -> Kw_landmark

\* the rules with a keyword occurring in the lower-cased label
Matching(l) ==
  { i \in 1..Len(RuleOrder) : \E k \in KeywordsOf(RuleOrder[i]) : Contains(k, Lower(l.s)) }

\* C3: categorize_place returns the category of the first rule, in the fixed
\* order, with a keyword occurring in the lower-cased label, and 'other' for
\* a missing label or one no rule matches; the result is one of the 14 values
FirstRuleWins ==
  master # "unset" =>
    /\ master \in Range(RuleOrder) \cup {"other"}
    /\ IF label.na \/ Matching(label) = {}
         THEN master = "other"
         ELSE master = RuleOrder[CHOOSE i \in Matching(label) : \A j \in Matching(label) : i <= j]

\* C3 witness: a label with a restaurant keyword and a retail keyword was
\* classified restaurant
CafeShopIsRestaurant ==
  /\ master = "restaurant"
  /\ ~label.na
  /\ Contains(<<"c","a","f","e">>, Lower(label.s))
  /\ Contains(<<"s","h","o","p">>, Lower(label.s))

\* the preconditions of an extraction
InRange(a) ==
  /\ a.latitude >= -9000 /\ a.latitude <= 9000
  /\ a.longitude >= -18000 /\ a.longitude <= 18000
  /\ a.radius > 0

\* C4: a run whose latitude, longitude or radius is out of range stops at the
\* validation with exit status 1: no cache file is removed, opened or
\* populated, nothing is fetched and no output file is written
InvalidArgsTouchNothing ==
  (pc # "idle" /\ ~InRange(args)) =>
    /\ pc \in {"parsed", "failed"}
    /\ pc = "failed" => exitCode = 1
    /\ log = <<>>
    /\ dbExists = db0.exists
    /\ dbTables = db0.tables
    /\ nearby = <<>>

\* C4 witness: a run with latitude 95.0 and --reload failed and the populated
\* cache is still there
InvalidReloadKeptCache ==
  /\ pc = "failed"
  /\ args.latitude = 9500
  /\ args.reload
  /\ dbExists
  /\ Ready(dbTables)

\* load_overture_data has been called in the current run
LoadCalled == log # <<>> /\ \E i \in 1..Len(log) : log[i] = "connect"

Fetched == \E i \in 1..Len(log) : log[i] = "fetch"

\* C5: a run fetches if and only if the cache was ABSENT when it started or
\* reload was requested; a reload of a READY cache discards it and fetches
\* before anything is read
FetchIffAbsentOrReload ==
  LoadCalled =>
    /\ Fetched <=> (~Ready(db0.tables) \/ args.reload)
    /\ (args.reload /\ Ready(db0.tables)) =>
         (Len(log) >= 3 /\ SubSeq(log, 1, 3) = <<"unlink", "connect", "fetch">>)

\* the run ended in a failed fetch
FetchFailed == pc = "failed" /\ log # <<>> /\ Last(log) = "fetch"

\* C6: a run whose fetch fails exits with status 1 without a frame or an
\* output file and leaves no regional table behind, and the next run
\* without reload fetches again
FailedFetchCommitsNothing ==
  /\ FetchFailed =>
       /\ exitCode = 1
       /\ nearby = <<>>
       /\ \A i \in 1..Len(log) : log[i] # "to_csv"
       /\ ~Ready(dbTables)
  /\ (prev.kind = "fetch_failed" /\ ~args.reload /\ LoadCalled) => Fetched

\* C6 witness: the run after a failed fetch, started without reload, fetched
\* and finished
RefetchedAfterFailure ==
  /\ prev.kind = "fetch_failed"
  /\ ~args.reload
  /\ pc = "done"
  /\ Fetched

SameParameters ==
  /\ prev.latitude = args.latitude
  /\ prev.longitude = args.longitude
  /\ prev.radius = args.radius

\* C7: a run without reload against a populated cache leaves the cache as it
\* found it, and writes the output the previous run wrote when that run was
\* such a run with the same target and radius
CachedRunsRepeat ==
  [][ (pc = "extracted" /\ pc' = "done" /\ ~args.reload /\ Ready(db0.tables)) =>
        /\ dbExists' = db0.exists
        /\ dbTables' = db0.tables
        /\ (prev.kind = "cached" /\ SameParameters) => outFile' = outFile ]_vars

\* C7 witness: the second of two such runs finished with two rows or more
RepeatedCachedRun ==
  /\ pc = "done"
  /\ ~args.reload
  /\ Ready(db0.tables)
  /\ prev.kind = "cached"
  /\ SameParameters
  /\ Len(outFile.rows) >= 2

\* C8 as stated: rows of equal haversine_m are in the order of the table
TiesInTableOrder ==
  HasFrame =>
    \A i, j \in 1..Len(nearby) :
      (i < j /\ nearby[i].haversine_m = nearby[j].haversine_m) =>
        PosInTable(nearby[i].id) < PosInTable(nearby[j].id)

\* C8 amended: every table row within the radius appears, the rows of equal
\* haversine_m next to one another; their order among themselves is not fixed
TiesKeptTogether ==
  HasFrame =>
    \A p \in InRadius :
      LET group == { i \in 1..Len(nearby) : nearby[i].haversine_m = DistanceOf(p) }
      IN /\ \E i \in group : nearby[i].id = p.id
         /\ Cardinality(group) = Cardinality({ q \in InRadius : DistanceOf(q) = DistanceOf(p) })
         /\ \A i, j \in group : \A k \in i..j : k \in group

\* C8 witness: two rows of equal distance were returned, the later one of the
\* table first
TiesReversed ==
  /\ pc = "done"
  /\ \E i, j \in 1..Len(nearby) :
       /\ i < j
       /\ nearby[i].haversine_m = nearby[j].haversine_m
       /\ PosInTable(nearby[i].id) > PosInTable(nearby[j].id)

\* the table has been read in the current run
Selected == \E i \in 1..Len(log) : log[i] = "select"

CachedPathHasTable ==
  (pc = "loaded" /\ ~Fetched) => Ready(dbTables)

=============================================================================
